---- MODULE Spec2Model ----
(***************************************************************************)
(* The quiz site (christmax): the game session lifecycle of the quiz app   *)
(* (quiz/models.py, quiz/admin.py), the seeded catalogue and the unlock    *)
(* records (load_seed_data), the accounts (users/models.py, the allauth    *)
(* adapters, the admin login backend), the multilingual fields of a        *)
(* question, the language of a response (christmax/urls.py) and the        *)
(* compile_translations command.  Each part has its own specification      *)
(* over its own variables; the others stay at their initial values.        *)
(*                                                                         *)
(* Time is a counter (timezone.now()); a nullable DateTimeField holds None *)
(* or a time.  Text is a sequence of one-character strings.                *)
(***************************************************************************)
EXTENDS Integers, Sequences, FiniteSets

VARIABLES
    now,        \* timezone.now(): the wall clock
    questions,  \* the quiz_question table: pk -> row, or NoRow
    sessions,   \* the quiz_game_session table: pk -> row, or NoRow
    attempts,   \* the quiz_attempt table: a set of rows
    inst,       \* per request: the GameSession instance it holds in memory
    catalog,    \* the quiz_category and quiz_trophy tables, and the outcome
                \* of the last load_seed_data run
    user_trophies,  \* the quiz_user_trophy table: a set of rows
    user_rows,      \* the users_user table: pk -> row, or NoRow
    profile_rows,   \* the users_profile table: a set of rows
    stats_rows,     \* the quiz_user_statistics table: a set of rows
    uinst,          \* per request: the User instance it holds in memory
    auth,           \* the last AdminUsernameBackend.authenticate call
    client,         \* the language cookie and Accept-Language header a client sends
    active,         \* the language activated on the serving thread
    responses,      \* the last two responses the client got
    content,        \* the multilingual JSON fields of a question
    shown,          \* the last multilingual lookup and what it returned
    locale_fs,      \* per locale: the files of base/locale/<code>/LC_MESSAGES
    compile_result, \* the outcome of the last compile_translations run
    social          \* the last pre_social_login call and what it did

\* the game session lifecycle
gameVars == <<now, questions, sessions, attempts, inst>>

\* the seeded catalogue and the unlock records
seedVars == <<catalog, user_trophies>>

\* the accounts: users, their profiles and statistics, the admin login
acctVars == <<user_rows, profile_rows, stats_rows, uinst, auth>>

\* the language of requests and responses
webVars == <<client, active, responses>>

\* the multilingual texts of a question
textVars == <<content, shown>>

\* the translation files
poVars == <<locale_fs, compile_result>>

\* the social logins
socialVars == <<social>>

\* what the game session operations leave alone
nonGame == <<seedVars, acctVars, webVars, textVars, poVars, socialVars>>

\* what the catalogue operations leave alone, the game tables apart
nonCatalog == <<acctVars, webVars, textVars, poVars, socialVars>>

\* what the account operations leave alone
nonAcct == <<gameVars, seedVars, webVars, textVars, poVars, socialVars>>

\* what a request for a page leaves alone
nonWeb == <<gameVars, seedVars, acctVars, textVars, poVars, socialVars>>

\* what a multilingual lookup leaves alone
nonText == <<gameVars, seedVars, acctVars, webVars, poVars, socialVars>>

\* what compile_translations leaves alone
nonPo == <<gameVars, seedVars, acctVars, webVars, textVars, socialVars>>

\* what a social login leaves alone
nonSocial == <<gameVars, seedVars, acctVars, webVars, textVars, poVars>>

vars == <<gameVars, seedVars, acctVars, webVars, textVars, poVars, socialVars>>

----------------------------------------------------------------------------
(* Bounds *)

\* the clock runs from 0 to MaxTime
MaxTime == 2

\* at most MaxAttempts rows in the quiz_attempt table
MaxAttempts == 2

\* texts are at most MaxLen characters long
MaxLen == 2

Times == 0..MaxTime

\* primary keys of quiz_game_session: two sessions, so that one session's
\* attempts can be told from another's
SessionIds == {1, 2}

\* two requests, so that two instances of one row can be in memory at once
Requests == {1, 2}

\* primary keys of quiz_question
QuestionIds == {1, 2}

\* values of Attempt.attempt_number a creator passes
AttemptNumbers == {1, 2}

----------------------------------------------------------------------------
(* Values *)

\* completed_at = models.DateTimeField(null=True): the null value
None == -1

\* a primary key with no row in the table
NoRow == [exists |-> FALSE]

\* a primary key whose row was deleted: the key is not given out again
DeletedRow == [exists |-> FALSE, deleted |-> TRUE]

\* a request that holds no instance
NoInstance == [pk |-> None]

\* GameSession.score = models.IntegerField(default=0)
DefaultScore == 0

\* the four strings GameSession.status returns
StatusValues == {"IN_PROGRESS", "WON", "LOST", "ABANDONED"}

----------------------------------------------------------------------------
(* Text: str.strip() and str.lower() *)

Chars == {"a", "A", " "}

\* every text of at most MaxLen characters
Texts == UNION {[1..n -> Chars] : n \in 0..MaxLen}

\* the answer of a seeded question: a lowercase word
SeedAnswer == <<"a">>

\* load_categories: the names of the seeded categories, in order
SeedCategories == <<"HTML", "PYTHON">>

\* load_questions: the seeded questions, in order; key stands for the
\* difficulty, answer and question_text that get_or_create looks up
SeedQuestions ==
    <<[key |-> "Q1", category |-> "HTML", answer |-> SeedAnswer],
      [key |-> "Q2", category |-> "PYTHON", answer |-> <<"a", "a">>]>>

\* load_trophies: the codes of the seeded trophies, in order
SeedTrophies == <<"LEVEL_5", "HTML_MASTER">>

\* Category.name and Trophy.code values
CategoryNames == {SeedCategories[i] : i \in DOMAIN SeedCategories} \cup {"CUSTOM"}
TrophyCodes == {SeedTrophies[i] : i \in DOMAIN SeedTrophies} \cup {"STREAK_10"}

\* the lookup values of a question row: a seeded question's, or other ones
QuestionKeys == {SeedQuestions[i].key : i \in DOMAIN SeedQuestions} \cup {"custom"}

\* users that unlock trophies
TrophyUsers == {1, 2}

\* the question the game sessions are played on
SeededQuestion(answer) ==
    [exists |-> TRUE, answer |-> answer,
     category |-> SeedQuestions[1].category, key |-> SeedQuestions[1].key]

\* empty quiz_category and quiz_trophy tables, no load_seed_data run yet
EmptyCatalog ==
    [categories |-> [c \in CategoryNames |-> "absent"],
     trophies |-> [t \in TrophyCodes |-> "absent"],
     result |-> "none"]

\* the text a user submits in the session lifecycle: the answer, capitalised
\* and padded with blanks
Submissions == {<<" ", "A", " ">>}

IsSpace(c) == c = " "

LowerChar(c) == IF c = "A" THEN "a" ELSE c

\* str.lower()
Lower(s) == [i \in 1..Len(s) |-> LowerChar(s[i])]

RECURSIVE LStrip(_)
LStrip(s) == IF s # <<>> /\ IsSpace(Head(s)) THEN LStrip(Tail(s)) ELSE s

RECURSIVE RStrip(_)
RStrip(s) ==
    IF s # <<>> /\ IsSpace(s[Len(s)]) THEN RStrip(SubSeq(s, 1, Len(s) - 1)) ELSE s

\* str.strip()
Strip(s) == RStrip(LStrip(s))

\* Question.clean_answer: self.answer.strip().lower()
clean_answer(q) == Lower(Strip(questions[q].answer))

----------------------------------------------------------------------------
(* GameSession.status *)

\* self.attempts: the reverse side of Attempt.game_session
attempts_of(pk) == {a \in attempts : a.game_session = pk}

\* the instance a fresh query of row pk returns
Instance(pk) ==
    [pk |-> pk,
     question |-> sessions[pk].question,
     end_at |-> sessions[pk].end_at,
     completed_at |-> sessions[pk].completed_at,
     score |-> sessions[pk].score]

\* status with the win test ahead of the late test
status_WinFirst(self) ==
    IF self.completed_at # None
    THEN IF \E a \in attempts_of(self.pk) : a.is_correct
         THEN "WON"
         ELSE IF self.completed_at > self.end_at
              THEN "ABANDONED"
              ELSE "LOST"
    ELSE IF now >= self.end_at
         THEN "ABANDONED"
         ELSE "IN_PROGRESS"

\* status with the late test written >=
status_LateInclusive(self) ==
    IF self.completed_at # None
    THEN IF self.completed_at >= self.end_at
         THEN "ABANDONED"
         ELSE IF \E a \in attempts_of(self.pk) : a.is_correct
              THEN "WON"
              ELSE "LOST"
    ELSE IF now >= self.end_at
         THEN "ABANDONED"
         ELSE "IN_PROGRESS"

\* status with the attempts of every session searched (Attempt.objects
\* in place of self.attempts)
status_AnySession(self) ==
    IF self.completed_at # None
    THEN IF self.completed_at > self.end_at
         THEN "ABANDONED"
         ELSE IF \E a \in attempts : a.is_correct
              THEN "WON"
              ELSE "LOST"
    ELSE IF now >= self.end_at
         THEN "ABANDONED"
         ELSE "IN_PROGRESS"

\* status with the deadline test written >
status_StrictDeadline(self) ==
    IF self.completed_at # None
    THEN IF self.completed_at > self.end_at
         THEN "ABANDONED"
         ELSE IF \E a \in attempts_of(self.pk) : a.is_correct
              THEN "WON"
              ELSE "LOST"
    ELSE IF now > self.end_at
         THEN "ABANDONED"
         ELSE "IN_PROGRESS"

\* status without its last line: the property falls off its end and
\* returns Python's None
status_NoLastReturn(self) ==
    IF self.completed_at # None
    THEN IF self.completed_at > self.end_at
         THEN "ABANDONED"
         ELSE IF \E a \in attempts_of(self.pk) : a.is_correct
              THEN "WON"
              ELSE "LOST"
    ELSE IF now >= self.end_at
         THEN "ABANDONED"
         ELSE "None"

\* GameSession.status of the instance self, read at time now
status(self) ==
    IF self.completed_at # None
    THEN IF self.completed_at > self.end_at
         THEN "ABANDONED"
         ELSE IF \E a \in attempts_of(self.pk) : a.is_correct
              THEN "WON"
              ELSE "LOST"
    ELSE IF now >= self.end_at
         THEN "ABANDONED"
         ELSE "IN_PROGRESS"

\* GameSessionAdmin.status_display: the colour table
colors ==
    [s \in StatusValues |->
        CASE s = "IN_PROGRESS" -> "#17a2b8"
          [] s = "WON" -> "#28a745"
          [] s = "LOST" -> "#dc3545"
          [] s = "ABANDONED" -> "#6c757d"]

\* GameSessionAdmin.status_display: colors.get(status, '#6c757d')
status_display(self) ==
    LET st == status(self) IN
    [color |-> IF st \in DOMAIN colors THEN colors[st] ELSE "#6c757d",
     text |-> st]

----------------------------------------------------------------------------
(* Operations *)

\* primary keys of users_user
UserIds == {1, 2, 3}

\* username = models.CharField(max_length=150)
UsernameMaxLength == 150

\* Profile.player_level and UserStatistics.player_level: default=1
DefaultPlayerLevel == 1

\* Profile.experience_points and UserStatistics.experience_points: default=0
DefaultExperiencePoints == 0

\* the value None where a text is expected: texts are sequences of single
\* characters, so this is none of them
NoneText == <<"None">>

\* email addresses: a local part, '@', a domain
Email(local, domain) == local \o <<"@", domain>>

\* local parts of the addresses that sign up: a letter followed by a
\* character that is no letter, digit or underscore
LocalParts == {<<"a", ".">>, <<"a", "+">>, <<"a", "-">>}

Domains == {"x", "y"}

\* the addresses that sign up: two with one local part, and one for each
\* other local part
Emails ==
    {Email(<<"a", ".">>, d) : d \in Domains} \cup {Email(l, "x") : l \in LocalParts}

\* the usernames a caller passes to User(...): none, or one that a generated
\* name can collide with
GivenUsernames == {<< >>, <<"a", "_", "_", "1">>}

\* the values ProfileAdmin's change form is given
PlayerLevels == {1, 2}
ExperiencePoints == {0, 5}

\* raw passwords; check_password(raw) compares with the one that was set
Passwords == {<<"p">>, <<"q">>}

\* no Profile instance cached on a User instance
NoProfile ==
    [pk |-> None, user |-> None, player_level |-> 0, experience_points |-> 0]

\* a request that holds no User instance
NoUser ==
    [pk |-> None, email |-> << >>, username |-> << >>,
     password |-> << >>, is_staff |-> FALSE, profile |-> NoProfile,
     raised |-> "none"]

\* no authenticate call yet
NoAuth ==
    [request |-> [present |-> FALSE, has_path |-> FALSE, path |-> << >>],
     username |-> NoneText, password |-> NoneText, result |-> None]

\* no user, no instance, no login
AcctInit0 ==
    /\ user_rows = [u \in UserIds |-> NoRow]
    /\ profile_rows = {}
    /\ stats_rows = {}
    /\ uinst = [r \in Requests |-> NoUser]
    /\ auth = NoAuth

\* a client with no cookie and no header, no request served yet
WebInit0 ==
    /\ client = [cookie |-> "None", accept |-> "None"]
    /\ active = "en"
    /\ responses = << >>

\* a question with empty mappings, never looked up
TextInit0 ==
    /\ content = [question_text |-> [is_dict |-> TRUE, items |-> [k \in {} |-> ""],
                                     str |-> "", truthy |-> FALSE],
                  hint_text |-> [is_dict |-> TRUE, items |-> [k \in {} |-> ""],
                                 str |-> "", truthy |-> FALSE],
                  explanation |-> [is_dict |-> TRUE, items |-> [k \in {} |-> ""],
                                   str |-> "", truthy |-> FALSE]]
    /\ shown = [getter |-> "None", language |-> "None", text |-> ""]

\* no pre_social_login call yet
NoSocialLogin ==
    [called |-> FALSE, email_addresses |-> << >>, is_existing |-> FALSE,
     is_anonymous |-> FALSE, response |-> "none", message |-> FALSE,
     connected |-> None]

SocialInit0 == social = NoSocialLogin

\* no locale directory holds a file, the command has not run
PoInit0 ==
    /\ locale_fs = [l \in {"en", "zh"} |->
                       [lc_messages |-> FALSE, djangojs_po |-> FALSE,
                        djangojs_mo |-> FALSE]]
    /\ compile_result = [status |-> "none", compiled |-> {},
                         summary |-> "none", js_warnings |-> {}]

\* no seeded catalogue and no unlock record
SeedInit0 ==
    /\ catalog = EmptyCatalog
    /\ user_trophies = {}

Init ==
    /\ now = 0
    /\ questions = [q \in QuestionIds |->
                       IF q = 1 THEN SeededQuestion(SeedAnswer) ELSE NoRow]
    /\ sessions = [pk \in SessionIds |-> NoRow]
    /\ attempts = {}
    /\ inst = [r \in Requests |-> NoInstance]
    /\ SeedInit0
    /\ AcctInit0
    /\ WebInit0
    /\ TextInit0
    /\ PoInit0 /\ SocialInit0

\* the clock advances
Tick ==
    /\ now < MaxTime
    /\ now' = now + 1
    /\ UNCHANGED <<questions, sessions, attempts, inst>>
    /\ UNCHANGED nonGame

\* GameSession(user, question, end_at).save(): a new row with the next primary
\* key for a question that exists (the foreign key); completed_at and score
\* take their defaults, end_at is whatever the creator passes
CreateSession(pk, q, e) ==
    /\ questions[q].exists
    /\ sessions[pk] = NoRow
    /\ \A p \in SessionIds : p < pk => sessions[p] # NoRow
    /\ sessions' = [sessions EXCEPT ![pk] =
                       [exists |-> TRUE, question |-> q, end_at |-> e,
                        completed_at |-> None, score |-> DefaultScore]]
    /\ UNCHANGED <<now, questions, attempts, inst>>
    /\ UNCHANGED nonGame

\* GameSession.objects.get(pk=pk): request r gets an instance of the row
Load(r, pk) ==
    /\ sessions[pk].exists
    /\ inst' = [inst EXCEPT ![r] = Instance(pk)]
    /\ UNCHANGED <<now, questions, sessions, attempts>>
    /\ UNCHANGED nonGame

\* Model.save() of a GameSession instance: every field is written to the row
save(self) ==
    [sessions EXCEPT ![self.pk] =
        [exists |-> TRUE, question |-> self.question, end_at |-> self.end_at,
         completed_at |-> self.completed_at, score |-> self.score]]

\* GameSession.complete() on the instance request r holds
complete(r) ==
    /\ inst[r] # NoInstance
    /\ IF inst[r].completed_at = None
       THEN /\ inst' = [inst EXCEPT ![r].completed_at = now]
            /\ sessions' = save(inst'[r])
       ELSE UNCHANGED <<inst, sessions>>
    /\ UNCHANGED <<now, questions, attempts>>
    /\ UNCHANGED nonGame

\* AddAttempt without unique_together
AddAttempt_NoUnique(pk, n, text, correct) ==
    /\ sessions[pk].exists
    /\ Cardinality(attempts) < MaxAttempts
    /\ attempts' = attempts \cup
           {[game_session |-> pk, attempt_number |-> n,
             user_answer |-> text, is_correct |-> correct]}
    /\ UNCHANGED <<now, questions, sessions, inst>>
    /\ UNCHANGED nonGame

\* An Attempt row is created (AttemptAdmin's add form, Attempt.objects.create):
\* every field is supplied by the caller; unique_together rejects a second row
\* with the same (game_session, attempt_number)
AddAttempt(pk, n, text, correct) ==
    /\ sessions[pk].exists
    /\ Cardinality(attempts) < MaxAttempts
    /\ ~\E a \in attempts : a.game_session = pk /\ a.attempt_number = n
    /\ attempts' = attempts \cup
           {[game_session |-> pk, attempt_number |-> n,
             user_answer |-> text, is_correct |-> correct]}
    /\ UNCHANGED <<now, questions, sessions, inst>>
    /\ UNCHANGED nonGame

Next ==
    \/ Tick
    \/ \E pk \in SessionIds, q \in QuestionIds, e \in Times : CreateSession(pk, q, e)
    \/ \E r \in Requests, pk \in SessionIds : Load(r, pk)
    \/ \E r \in Requests : complete(r)
    \/ \E pk \in SessionIds, n \in AttemptNumbers, text \in Submissions,
          correct \in BOOLEAN : AddAttempt(pk, n, text, correct)

Spec == Init /\ [][Next]_vars

----------------------------------------------------------------------------
(* Scores: sessions that are loaded and completed while GameSessionAdmin's  *)
(* change form, where score is editable, sets the stored score.             *)

\* the scores the change form is given
Scores == {0, 5}

\* GameSessionAdmin's change form: the stored score of the row is set
UpdateScore(pk, score) ==
    /\ sessions[pk].exists
    /\ sessions' = [sessions EXCEPT ![pk].score = score]
    /\ UNCHANGED <<now, questions, attempts, inst>>
    /\ UNCHANGED nonGame

ScoreNext ==
    \/ Tick
    \/ \E pk \in SessionIds, e \in Times : CreateSession(pk, 1, e)
    \/ \E r \in Requests, pk \in SessionIds : Load(r, pk)
    \/ \E r \in Requests : complete(r)
    \/ \E pk \in SessionIds, score \in Scores : UpdateScore(pk, score)

ScoreSpec == Init /\ [][ScoreNext]_vars

----------------------------------------------------------------------------
(* Answers: the same tables with one session, every canonical answer and   *)
(* every submitted text of at most MaxLen characters.                       *)

AnswerInit ==
    /\ now = 0
    /\ \E answer \in Texts :
          questions = [q \in QuestionIds |->
                          IF q = 1 THEN SeededQuestion(answer) ELSE NoRow]
    /\ sessions = [pk \in SessionIds |-> NoRow]
    /\ attempts = {}
    /\ inst = [r \in Requests |-> NoInstance]
    /\ SeedInit0
    /\ AcctInit0
    /\ WebInit0
    /\ TextInit0
    /\ PoInit0 /\ SocialInit0

AnswerNext ==
    \/ \E q \in QuestionIds : CreateSession(1, q, MaxTime)
    \/ \E n \in AttemptNumbers, text \in Texts, correct \in BOOLEAN :
          AddAttempt(1, n, text, correct)

AnswerSpec == AnswerInit /\ [][AnswerNext]_vars

----------------------------------------------------------------------------
(* load_seed_data, and the admin forms that add catalogue rows *)

\* CategoryAdmin's add form: a category with field values of the admin's
AdminAddCategory(c) ==
    /\ catalog.categories[c] = "absent"
    /\ catalog' = [catalog EXCEPT !.categories[c] = "custom"]
    /\ UNCHANGED <<gameVars, user_trophies, nonCatalog>>

\* QuestionAdmin's add form: a question row with the next primary key, in a
\* category that exists
AdminAddQuestion(pk, key, c, answer) ==
    /\ catalog.categories[c] # "absent"
    /\ questions[pk] = NoRow
    /\ \A p \in QuestionIds : p < pk => questions[p] # NoRow
    /\ questions' = [questions EXCEPT ![pk] =
                        [exists |-> TRUE, answer |-> answer,
                         category |-> c, key |-> key]]
    /\ UNCHANGED <<now, sessions, attempts, inst, seedVars, nonCatalog>>

\* TrophyAdmin's add form
AdminAddTrophy(t) ==
    /\ catalog.trophies[t] = "absent"
    /\ catalog' = [catalog EXCEPT !.trophies[t] = "custom"]
    /\ UNCHANGED <<gameVars, user_trophies, nonCatalog>>

\* a UserTrophy row is created (UserTrophyAdmin's add form, or whoever
\* unlocks trophies): the trophy exists, unique_together (user, trophy)
UnlockTrophy(u, t) ==
    /\ catalog.trophies[t] # "absent"
    /\ ~\E ut \in user_trophies : ut.user = u /\ ut.trophy = t
    /\ user_trophies' = user_trophies \cup {[user |-> u, trophy |-> t]}
    /\ UNCHANGED <<gameVars, catalog, nonCatalog>>

\* Model.objects.all().delete() on a table of rows by primary key
delete_all(rows) ==
    [pk \in DOMAIN rows |-> IF rows[pk] = NoRow THEN NoRow ELSE DeletedRow]

\* load_categories with update_or_create: a row that exists is overwritten
load_categories_Update(cats) ==
    [c \in CategoryNames |->
        IF \E i \in DOMAIN SeedCategories : SeedCategories[i] = c
        THEN "seed"
        ELSE cats[c]]

\* load_categories: get_or_create by name; a row that exists is left as it is
load_categories(cats) ==
    [c \in CategoryNames |->
        IF cats[c] = "absent" /\ \E i \in DOMAIN SeedCategories : SeedCategories[i] = c
        THEN "seed"
        ELSE cats[c]]

\* the rows get_or_create finds for the i-th seeded question
question_matches(qs, i) ==
    {pk \in QuestionIds :
        /\ qs[pk].exists
        /\ qs[pk].key = SeedQuestions[i].key
        /\ qs[pk].category = SeedQuestions[i].category}

\* load_questions returns normally: get_or_create finds exactly one row for
\* every seeded question.  With no row it creates one, and the defaults name
\* 'prism_language', which is no field of Question: FieldError.  With several
\* rows get() raises MultipleObjectsReturned.
load_questions_succeeds(qs) ==
    \A i \in DOMAIN SeedQuestions : Cardinality(question_matches(qs, i)) = 1

\* load_trophies: get_or_create by code
load_trophies(trs) ==
    [t \in TrophyCodes |->
        IF trs[t] = "absent" /\ \E i \in DOMAIN SeedTrophies : SeedTrophies[i] = t
        THEN "seed"
        ELSE trs[t]]

\* Command.handle of load_seed_data: with --clear the three tables are emptied
\* (each delete() commits, and cascades over the foreign keys: the sessions
\* and attempts of the questions, the unlock records of the trophies); then
\* the three loads run in one transaction, which an exception rolls back
load_seed_data(clear) ==
    LET qs == IF clear THEN delete_all(questions) ELSE questions
        cats == IF clear THEN EmptyCatalog.categories ELSE catalog.categories
        trs == IF clear THEN EmptyCatalog.trophies ELSE catalog.trophies
    IN  /\ questions' = qs
        /\ sessions' = IF clear THEN delete_all(sessions) ELSE sessions
        /\ attempts' = IF clear THEN {} ELSE attempts
        /\ user_trophies' = IF clear THEN {} ELSE user_trophies
        /\ catalog' =
              IF load_questions_succeeds(qs)
              THEN [categories |-> load_categories(cats),
                    trophies |-> load_trophies(trs),
                    result |-> "ok"]
              ELSE [categories |-> cats, trophies |-> trs, result |-> "error"]
        /\ UNCHANGED <<now, inst, nonCatalog>>

\* the catalogue: empty tables, the admin forms, the seed command
SeedInit ==
    /\ now = 0
    /\ questions = [q \in QuestionIds |-> NoRow]
    /\ sessions = [pk \in SessionIds |-> NoRow]
    /\ attempts = {}
    /\ inst = [r \in Requests |-> NoInstance]
    /\ SeedInit0
    /\ AcctInit0
    /\ WebInit0
    /\ TextInit0
    /\ PoInit0 /\ SocialInit0

SeedNext ==
    \/ \E c \in CategoryNames : AdminAddCategory(c)
    \/ \E pk \in QuestionIds, key \in QuestionKeys, c \in CategoryNames :
          AdminAddQuestion(pk, key, c, SeedAnswer)
    \/ \E t \in TrophyCodes : AdminAddTrophy(t)
    \/ \E u \in TrophyUsers, t \in TrophyCodes : UnlockTrophy(u, t)
    \/ \E clear \in BOOLEAN : load_seed_data(clear)

SeedSpec == SeedInit /\ [][SeedNext]_vars

----------------------------------------------------------------------------
(* Accounts: users_user, users_profile, quiz_user_statistics *)

\* email.split('@')[0]
local_part(email) ==
    LET ats == {i \in 1..Len(email) : email[i] = "@"}
    IN  IF ats = {} THEN email
        ELSE SubSeq(email, 1, (CHOOSE i \in ats : \A j \in ats : i <= j) - 1)

\* str.replace(old, new) for single characters
replace(s, old, new) == [i \in 1..Len(s) |-> IF s[i] = old THEN new ELSE s[i]]

\* the characters \w matches: letters, digits and the underscore
IsWordChar(c) == c \notin {".", "+", "-", "@", " "}

\* re.sub(r'[^\w]', '_', s)
sub_non_word(s) == [i \in 1..Len(s) |-> IF IsWordChar(s[i]) THEN s[i] ELSE "_"]

\* s[:n]
truncate(s, n) == SubSeq(s, 1, IF Len(s) < n THEN Len(s) ELSE n)

\* str(counter) for the counters the loop reaches
str(counter) == <<<<"1", "2", "3", "4", "5", "6", "7", "8", "9">>[counter]>>

\* User.objects.filter(username=username).exclude(pk=pk).exists()
username_taken(username, pk) ==
    \E u \in UserIds \ {pk} : user_rows[u].exists /\ user_rows[u].username = username

\* the uniqueness loop of User.save and generate_username_from_email:
\*   while <taken>: username = f'{base_username}_{counter}'; counter += 1
RECURSIVE unique_username(_, _, _, _)
unique_username(base_username, username, counter, pk) ==
    IF username_taken(username, pk)
    THEN unique_username(base_username, base_username \o <<"_">> \o str(counter),
                         counter + 1, pk)
    ELSE username

\* User.save: local_part.replace('.', '_') only, '+' kept
save_base_DotOnly(email) ==
    truncate(replace(local_part(email), ".", "_"), UsernameMaxLength)

\* User.save: base_username = local_part.replace('.', '_').replace('+', '_')[:150]
save_base(email) ==
    truncate(replace(replace(local_part(email), ".", "_"), "+", "_"),
             UsernameMaxLength)

\* generate_username_from_email: re.sub(r'[^\w]', '_', local_part)[:150]
adapter_base(email) == truncate(sub_non_word(local_part(email)), UsernameMaxLength)

\* User(email=..., username=..., ...): an unsaved instance
NewInstance(r, email, username, password, is_staff) ==
    /\ uinst' = [uinst EXCEPT ![r] =
                    [pk |-> None, email |-> email, username |-> username,
                     password |-> password, is_staff |-> is_staff,
                     profile |-> NoProfile, raised |-> "none"]]
    /\ UNCHANGED <<user_rows, profile_rows, stats_rows, auth, nonAcct>>

\* User.objects.get(pk=pk): a fresh instance, no related object cached
LoadUser(r, pk) ==
    /\ user_rows[pk].exists
    /\ uinst' = [uinst EXCEPT ![r] =
                    [pk |-> pk, email |-> user_rows[pk].email,
                     username |-> user_rows[pk].username,
                     password |-> user_rows[pk].password,
                     is_staff |-> user_rows[pk].is_staff,
                     profile |-> NoProfile, raised |-> "none"]]
    /\ UNCHANGED <<user_rows, profile_rows, stats_rows, auth, nonAcct>>

\* MyAccountAdapter / MySocialAccountAdapter.populate_username:
\* generate_username_from_email(user) sets the instance's username if it has
\* none; nothing is stored
populate_username(r) ==
    LET user == uinst[r]
    IN  /\ user.email # << >>
        /\ uinst' = [uinst EXCEPT ![r].username =
                        IF user.username = << >>
                        THEN unique_username(adapter_base(user.email),
                                             adapter_base(user.email), 1, user.pk)
                        ELSE user.username]
        /\ UNCHANGED <<user_rows, profile_rows, stats_rows, auth, nonAcct>>

\* the Profile rows of a user
profiles_of(u) == {p \in profile_rows : p.user = u}

\* the UserStatistics rows of a user
stats_of(u) == {st \in stats_rows : st.user = u}

\* the primary key an INSERT into users_user gets
next_user_pk ==
    CHOOSE u \in UserIds :
        /\ user_rows[u] = NoRow
        /\ \A v \in UserIds : v < u => user_rows[v] # NoRow

\* Profile.save() of an instance: every field is written to its row
write_profile(rows, p) == {IF q.pk = p.pk THEN p ELSE q : q \in rows}

\* User.save of the instance request r holds, with the post_save receivers:
\* the username is generated if the instance has none; the row is inserted or
\* updated (unique email, unique username: IntegrityError leaves the tables as
\* they are); create_user_profile and create_user_statistics add their rows
\* for a created user; save_user_profile saves instance.profile, the cached
\* instance if there is one and the stored row otherwise
User_save(r) ==
    LET self == uinst[r]
        created == self.pk = None
        username == IF self.username = << >>
                    THEN unique_username(save_base(self.email),
                                         save_base(self.email), 1, self.pk)
                    ELSE self.username
        conflict == \E u \in UserIds \ {self.pk} :
                        /\ user_rows[u].exists
                        /\ \/ user_rows[u].email = self.email
                           \/ user_rows[u].username = username
        pk == IF created THEN next_user_pk ELSE self.pk
        new_profile == [pk |-> Cardinality(profile_rows) + 1, user |-> pk,
                        player_level |-> DefaultPlayerLevel,
                        experience_points |-> DefaultExperiencePoints]
        profile == IF created THEN new_profile
                   ELSE IF self.profile.pk # None THEN self.profile
                   ELSE IF profiles_of(pk) # {} THEN CHOOSE p \in profiles_of(pk) : TRUE
                   ELSE NoProfile
    IN  /\ self.email # << >>
        /\ created => \E u \in UserIds : user_rows[u] = NoRow
        /\ IF conflict
           THEN /\ uinst' = [uinst EXCEPT ![r].username = username,
                                             ![r].raised = "IntegrityError"]
                /\ UNCHANGED <<user_rows, profile_rows, stats_rows>>
           ELSE /\ user_rows' = [user_rows EXCEPT ![pk] =
                                    [exists |-> TRUE, email |-> self.email,
                                     username |-> username,
                                     password |-> self.password,
                                     is_staff |-> self.is_staff]]
                /\ profile_rows' =
                      IF created THEN profile_rows \cup {new_profile}
                      ELSE IF profile.pk # None THEN write_profile(profile_rows, profile)
                      ELSE profile_rows
                /\ stats_rows' =
                      IF created
                      THEN stats_rows \cup
                              {[pk |-> Cardinality(stats_rows) + 1, user |-> pk,
                                player_level |-> DefaultPlayerLevel,
                                experience_points |-> DefaultExperiencePoints]}
                      ELSE stats_rows
                /\ uinst' = [uinst EXCEPT ![r] =
                                [self EXCEPT !.pk = pk, !.username = username,
                                             !.profile = profile,
                                             !.raised = "none"]]
        /\ UNCHANGED <<auth, nonAcct>>

\* ProfileAdmin's change form (or ProfileInline): the row's values are set
EditProfile(ppk, level, xp) ==
    /\ \E p \in profile_rows : p.pk = ppk
    /\ profile_rows' = {IF p.pk = ppk
                        THEN [p EXCEPT !.player_level = level,
                                       !.experience_points = xp]
                        ELSE p : p \in profile_rows}
    /\ UNCHANGED <<user_rows, stats_rows, uinst, auth, nonAcct>>

\* no question, no session
GameInit0 ==
    /\ now = 0
    /\ questions = [q \in QuestionIds |-> NoRow]
    /\ sessions = [pk \in SessionIds |-> NoRow]
    /\ attempts = {}
    /\ inst = [r \in Requests |-> NoInstance]

\* users that sign up without a username, are loaded and saved again, while
\* their profiles are edited
ProfileInit == GameInit0 /\ SeedInit0 /\ AcctInit0 /\ WebInit0 /\ TextInit0 /\ PoInit0 /\ SocialInit0

ProfileNext ==
    \/ \E r \in Requests, d \in Domains :
          NewInstance(r, Email(<<"a", ".">>, d), << >>, <<"p">>, FALSE)
    \/ \E r \in Requests, pk \in UserIds : LoadUser(r, pk)
    \/ \E r \in Requests : User_save(r)
    \/ \E ppk \in UserIds, level \in PlayerLevels, xp \in ExperiencePoints :
          EditProfile(ppk, level, xp)

ProfileSpec == ProfileInit /\ [][ProfileNext]_vars

\* users that sign up with and without a username, directly and through the
\* allauth adapters
NameInit == GameInit0 /\ SeedInit0 /\ AcctInit0 /\ WebInit0 /\ TextInit0 /\ PoInit0 /\ SocialInit0

NameNext ==
    \/ \E r \in Requests, email \in Emails, username \in GivenUsernames :
          NewInstance(r, email, username, <<"p">>, FALSE)
    \/ \E r \in Requests : populate_username(r)
    \/ \E r \in Requests : User_save(r)

NameSpec == NameInit /\ [][NameNext]_vars

\* a local part as long as the username field allows
LongLocalPart == [i \in 1..UsernameMaxLength |-> "a"]

\* two addresses with that local part
LongEmails == {Email(LongLocalPart, d) : d \in Domains}

\* users with long addresses that sign up without a username, directly and
\* through the allauth adapters
LongNameNext ==
    \/ \E r \in Requests, email \in LongEmails :
          NewInstance(r, email, << >>, <<"p">>, FALSE)
    \/ \E r \in Requests : populate_username(r)
    \/ \E r \in Requests : User_save(r)

LongNameSpec == NameInit /\ [][LongNameNext]_vars

----------------------------------------------------------------------------
(* URLs and languages: christmax/urls.py under LocaleMiddleware *)

\* settings.LANGUAGES: the language codes
Languages == {"en", "zh"}

\* settings.LANGUAGE_CODE: the default language
LANGUAGE_CODE == "en"

\* no language: no prefix in a path, no cookie, no Accept-Language header
NoLanguage == "None"

\* i18n_patterns(..., prefix_default_language=False)
prefix_default_language == FALSE

\* the routes inside i18n_patterns, as path segments after the prefix
I18nRoutes == {<< >>, <<"jsi18n">>, <<"settings">>, <<"accounts", "login">>}

\* request paths, as segments: /, /zh/, /en/, /settings/, /zh/settings/,
\* /admin/login/, /zh/admin/, /nowhere/
Paths ==
    {<< >>, <<"zh">>, <<"en">>, <<"settings">>, <<"zh", "settings">>,
     <<"admin", "login">>, <<"zh", "admin">>, <<"nowhere">>}

\* translation.get_language_from_path: the first segment if it is a language
get_language_from_path(path) ==
    IF path # << >> /\ Head(path) \in Languages THEN Head(path) ELSE NoLanguage

\* LocaleMiddleware.process_request when the default language had a prefix
\* too: path, then cookie, then Accept-Language, then LANGUAGE_CODE
locale_language_PrefixedDefault(path, cookie, accept) ==
    IF get_language_from_path(path) # NoLanguage THEN get_language_from_path(path)
    ELSE IF cookie \in Languages THEN cookie
    ELSE IF accept \in Languages THEN accept
    ELSE LANGUAGE_CODE

\* LocaleMiddleware.process_request: the language it activates.
\* get_language_from_request(check_path=True) looks at the path, then the
\* cookie, then Accept-Language; with i18n_patterns in use and no prefix for
\* the default language, a path without a language gets LANGUAGE_CODE
locale_language(path, cookie, accept) ==
    IF get_language_from_path(path) = NoLanguage /\ ~prefix_default_language
    THEN LANGUAGE_CODE
    ELSE locale_language_PrefixedDefault(path, cookie, accept)

\* django.urls.resolve(path) while `language` is active: the namespace of the
\* match, or "Resolver404".  admin/ is outside i18n_patterns; the other routes
\* carry the active language's prefix, the default language none
resolve(path, language) ==
    LET prefix == IF language = LANGUAGE_CODE /\ ~prefix_default_language
                  THEN << >>
                  ELSE <<language>>
    IN  IF path # << >> /\ Head(path) = "admin" THEN "admin"
        ELSE IF /\ Len(path) >= Len(prefix)
                /\ SubSeq(path, 1, Len(prefix)) = prefix
                /\ SubSeq(path, Len(prefix) + 1, Len(path)) \in I18nRoutes
        THEN ""
        ELSE "Resolver404"

\* the client sends whatever cookie and Accept-Language header it likes
SetClient(cookie, accept) ==
    /\ client' = [cookie |-> cookie, accept |-> accept]
    /\ UNCHANGED <<active, responses, nonWeb>>

\* one request through LocaleMiddleware and the URL resolver: the language is
\* activated on the thread and set as request.LANGUAGE_CODE; the client keeps
\* the last two responses
Get(path) ==
    LET language == locale_language(path, client.cookie, client.accept)
        response == [path |-> path, LANGUAGE_CODE |-> language,
                     status_code |-> IF resolve(path, language) = "Resolver404"
                                     THEN 404 ELSE 200]
    IN  /\ active' = language
        /\ responses' = IF Len(responses) < 2
                        THEN Append(responses, response)
                        ELSE <<responses[2], response>>
        /\ UNCHANGED <<client, nonWeb>>

WebInit == GameInit0 /\ SeedInit0 /\ AcctInit0 /\ WebInit0 /\ TextInit0 /\ PoInit0 /\ SocialInit0

WebNext ==
    \/ \E cookie \in Languages \cup {NoLanguage, "fr"},
          accept \in Languages \cup {NoLanguage} : SetClient(cookie, accept)
    \/ \E path \in Paths : Get(path)

WebSpec == WebInit /\ [][WebNext]_vars

----------------------------------------------------------------------------
(* AdminUsernameBackend *)

\* the requests authenticate is called with: none, one without a path, one
\* with a path
AuthRequests ==
    {[present |-> FALSE, has_path |-> FALSE, path |-> << >>],
     [present |-> TRUE, has_path |-> FALSE, path |-> << >>]}
    \cup {[present |-> TRUE, has_path |-> TRUE, path |-> p] :
            p \in {<<"admin", "login">>, << >>, <<"zh", "admin">>, <<"nowhere">>}}

\* what a login form or a caller passes as username
LoginNames ==
    {NoneText, <<"a", "_">>, <<"a", "_", "_", "1">>, <<"z">>}
    \cup {Email(<<"a", ".">>, d) : d \in Domains}

\* User.objects.get(username=username), else User.objects.get(email=username):
\* the primary key, or None for User.DoesNotExist
get_user(username) ==
    LET by_username == {u \in UserIds :
                          user_rows[u].exists /\ user_rows[u].username = username}
        by_email == {u \in UserIds :
                          user_rows[u].exists /\ user_rows[u].email = username}
    IN  IF by_username # {} THEN CHOOSE u \in by_username : TRUE
        ELSE IF by_email # {} THEN CHOOSE u \in by_email : TRUE
        ELSE None

\* authenticate without the is_staff test
authenticate_AnyUser(request, username, password) ==
    IF username = NoneText \/ password = NoneText THEN None
    ELSE IF get_user(username) = None THEN None
    ELSE IF user_rows[get_user(username)].password # password THEN None
    ELSE IF request.present /\ request.has_path
            /\ resolve(request.path,
                       locale_language(request.path, NoLanguage, NoLanguage)) = "admin"
    THEN get_user(username)
    ELSE None

\* AdminUsernameBackend.authenticate: the user's primary key, or None
authenticate(request, username, password) ==
    IF username = NoneText \/ password = NoneText THEN None
    ELSE LET user == get_user(username)
         IN  IF user = None THEN None
             ELSE IF user_rows[user].password = password
             THEN IF ~user_rows[user].is_staff THEN None
                  ELSE IF request.present /\ request.has_path
                  THEN IF resolve(request.path,
                                  locale_language(request.path, NoLanguage, NoLanguage))
                            = "admin"
                       THEN user
                       ELSE None
                  ELSE None
             ELSE None

\* django.contrib.auth.authenticate calls the backend; the outcome is kept
Authenticate(request, username, password) ==
    /\ auth' = [request |-> request, username |-> username, password |-> password,
                result |-> authenticate(request, username, password)]
    /\ UNCHANGED <<user_rows, profile_rows, stats_rows, uinst, nonAcct>>

\* two stored users, staff or not; the second one's username may be the first
\* one's email address
AuthInit ==
    /\ GameInit0 /\ SeedInit0 /\ WebInit0 /\ TextInit0 /\ PoInit0 /\ SocialInit0
    /\ \E staff1, staff2 \in BOOLEAN, pw2 \in Passwords,
          name2 \in {<<"a", "_", "_", "1">>, Email(<<"a", ".">>, "x")} :
          user_rows = [u \in UserIds |->
              IF u = 1
              THEN [exists |-> TRUE, email |-> Email(<<"a", ".">>, "x"),
                    username |-> <<"a", "_">>, password |-> <<"p">>,
                    is_staff |-> staff1]
              ELSE IF u = 2
              THEN [exists |-> TRUE, email |-> Email(<<"a", ".">>, "y"),
                    username |-> name2, password |-> pw2, is_staff |-> staff2]
              ELSE NoRow]
    /\ profile_rows = {[pk |-> u, user |-> u, player_level |-> DefaultPlayerLevel,
                        experience_points |-> DefaultExperiencePoints] : u \in {1, 2}}
    /\ stats_rows = {[pk |-> u, user |-> u, player_level |-> DefaultPlayerLevel,
                      experience_points |-> DefaultExperiencePoints] : u \in {1, 2}}
    /\ uinst = [r \in Requests |-> NoUser]
    /\ auth = NoAuth

AuthNext ==
    \E request \in AuthRequests, username \in LoginNames,
       password \in Passwords \cup {NoneText} :
        Authenticate(request, username, password)

AuthSpec == AuthInit /\ [][AuthNext]_vars

----------------------------------------------------------------------------
(* Multilingual fields of Question *)

\* the language codes a JSON mapping is keyed by
MappingKeys == {"en", "zh"}

\* the language codes a caller asks for
LanguageCodes == {"en", "zh", "fr"}

\* the texts stored in a mapping
FieldTexts == {"", "t"}

\* {}
EmptyDict == [k \in {} |-> ""]

\* the values of a JSONField: a mapping from language codes to texts, or
\* something else, of which str() and the truth value matter: '', 'text', []
JsonValues ==
    {[is_dict |-> TRUE, items |-> d, str |-> "", truthy |-> FALSE] :
        d \in UNION {[K -> FieldTexts] : K \in SUBSET MappingKeys}}
    \cup {[is_dict |-> FALSE, items |-> EmptyDict, str |-> x[1], truthy |-> x[2]] :
            x \in {<<"", FALSE>>, <<"text", TRUE>>, <<"[]", FALSE>>}}

\* no lookup made yet
NoLookup == [getter |-> "None", language |-> "None", text |-> ""]

\* dict.get(key, default)
dict_get(d, key, default) == IF key \in DOMAIN d THEN d[key] ELSE default

\* Question.get_question_text
get_question_text(self, language) ==
    IF self.question_text.is_dict
    THEN dict_get(self.question_text.items, language,
                  dict_get(self.question_text.items, "en", ""))
    ELSE self.question_text.str

\* get_hint_text with no fallback to 'en'
get_hint_text_NoFallback(self, language) ==
    IF self.hint_text.is_dict
    THEN dict_get(self.hint_text.items, language, "")
    ELSE IF self.hint_text.truthy THEN self.hint_text.str ELSE ""

\* Question.get_hint_text
get_hint_text(self, language) ==
    IF self.hint_text.is_dict
    THEN dict_get(self.hint_text.items, language,
                  dict_get(self.hint_text.items, "en", ""))
    ELSE IF self.hint_text.truthy THEN self.hint_text.str ELSE ""

\* Question.get_explanation
get_explanation(self, language) ==
    IF self.explanation.is_dict
    THEN dict_get(self.explanation.items, language,
                  dict_get(self.explanation.items, "en", ""))
    ELSE IF self.explanation.truthy THEN self.explanation.str ELSE ""

\* a caller asks for the question text in a language
ShowQuestionText(language) ==
    /\ shown' = [getter |-> "get_question_text", language |-> language,
                 text |-> get_question_text(content, language)]
    /\ UNCHANGED <<content, nonText>>

\* a caller asks for the hint in a language
ShowHintText(language) ==
    /\ shown' = [getter |-> "get_hint_text", language |-> language,
                 text |-> get_hint_text(content, language)]
    /\ UNCHANGED <<content, nonText>>

\* a caller asks for the explanation in a language
ShowExplanation(language) ==
    /\ shown' = [getter |-> "get_explanation", language |-> language,
                 text |-> get_explanation(content, language)]
    /\ UNCHANGED <<content, nonText>>

\* a question with any JSON values in its three multilingual fields
TextInit ==
    /\ GameInit0 /\ SeedInit0 /\ AcctInit0 /\ WebInit0 /\ PoInit0 /\ SocialInit0
    /\ content \in [question_text : JsonValues, hint_text : JsonValues,
                    explanation : JsonValues]
    /\ shown = NoLookup

TextNext ==
    \/ \E language \in LanguageCodes : ShowQuestionText(language)
    \/ \E language \in LanguageCodes : ShowHintText(language)
    \/ \E language \in LanguageCodes : ShowExplanation(language)

TextSpec == TextInit /\ [][TextNext]_vars

----------------------------------------------------------------------------
(* compile_translations: base/locale/<code>/LC_MESSAGES *)

\* the directories under base/locale
Locales == {"en", "zh"}

\* source_files, in priority order (first = highest priority)
SourceFiles == <<"manual.po", "app.po", "allauth.po", "django-core.po">>

SourceNames == {SourceFiles[i] : i \in DOMAIN SourceFiles}

\* the message ids of the catalogues
MsgIds == {"Home", "Language"}

\* a file that is not there
NoFile == [exists |-> FALSE, entries |-> [m \in {} |-> ""]]

\* a .po file named f that translates the message ids `ids`; the translation
\* it gives tells which file it came from
PoFile(f, ids) == [exists |-> TRUE, entries |-> [m \in ids |-> f]]

\* the contents a source file can have: for the two files of highest
\* priority none, one message or both; for the others none or both
SourceContents(f) ==
    IF f \in {"manual.po", "app.po"}
    THEN {NoFile, PoFile(f, {"Home"}), PoFile(f, MsgIds)}
    ELSE {NoFile, PoFile(f, MsgIds)}

\* an LC_MESSAGES directory with nothing in it
EmptyMessagesDir ==
    [lc_messages |-> TRUE,
     sources |-> [f \in SourceNames |-> NoFile],
     django_po |-> NoFile, django_mo |-> NoFile,
     djangojs_po |-> FALSE, djangojs_mo |-> FALSE]

\* the --locale options: none (every directory under base/locale), a list
NoLocales == << >>

LocaleOptions == {NoLocales, <<"zh">>, <<"en", "zh">>, <<"fr">>}

\* no run of the command yet
NoRun == [status |-> "none", compiled |-> {}, summary |-> "none", js_warnings |-> {}]

\* msgcat that lets the last file win
msgcat_UseLast(catalogs) ==
    [m \in UNION {DOMAIN catalogs[i] : i \in DOMAIN catalogs} |->
        catalogs[CHOOSE i \in DOMAIN catalogs :
                    /\ m \in DOMAIN catalogs[i]
                    /\ \A j \in DOMAIN catalogs : j > i => m \notin DOMAIN catalogs[j]][m]]

\* msgcat --use-first --sort-output: every message id of any input, with the
\* translation of the first input that has it
msgcat(catalogs) ==
    [m \in UNION {DOMAIN catalogs[i] : i \in DOMAIN catalogs} |->
        catalogs[CHOOSE i \in DOMAIN catalogs :
                    /\ m \in DOMAIN catalogs[i]
                    /\ \A j \in DOMAIN catalogs : j < i => m \notin DOMAIN catalogs[j]][m]]

\* msgfmt -o django.mo django.po: the compiled catalogue of the entries
msgfmt(po) == [exists |-> TRUE, entries |-> po.entries]

\* existing_files of a directory: the source files that exist, in order
existing_files(dir) == SelectSeq(SourceFiles, LAMBDA f : dir.sources[f].exists)

\* the loop of handle over locale_codes: a locale without LC_MESSAGES or
\* without source files is skipped; msgcat writes django.po, msgfmt writes
\* django.mo; a failing tool raises CommandError and ends the loop
RECURSIVE compile_locales(_, _, _, _)
compile_locales(locale_codes, fs, cat_fails, fmt_fails) ==
    IF locale_codes = << >>
    THEN [fs |-> fs, compiled |-> {}, error |-> FALSE]
    ELSE LET lang_code == Head(locale_codes)
             rest == Tail(locale_codes)
         IN  IF lang_code \notin Locales THEN
                 compile_locales(rest, fs, cat_fails, fmt_fails)
             ELSE IF ~fs[lang_code].lc_messages
                     \/ existing_files(fs[lang_code]) = << >> THEN
                 compile_locales(rest, fs, cat_fails, fmt_fails)
             ELSE IF lang_code \in cat_fails THEN
                 [fs |-> fs, compiled |-> {}, error |-> TRUE]
             ELSE
                 LET files == existing_files(fs[lang_code])
                     po == [exists |-> TRUE,
                            entries |-> msgcat([i \in DOMAIN files |->
                                          fs[lang_code].sources[files[i]].entries])]
                     merged == [fs EXCEPT ![lang_code].django_po = po]
                 IN  IF lang_code \in fmt_fails
                     THEN [fs |-> merged, compiled |-> {}, error |-> TRUE]
                     ELSE LET done == compile_locales(
                                  rest,
                                  [merged EXCEPT ![lang_code].django_mo = msgfmt(po)],
                                  cat_fails, fmt_fails)
                          IN  [done EXCEPT !.compiled = @ \cup {lang_code}]

\* the locales of locale_codes that have a djangojs.po
js_locales(locale_codes, fs) ==
    {l \in Locales : /\ \E i \in DOMAIN locale_codes : locale_codes[i] = l
                     /\ fs[l].lc_messages /\ fs[l].djangojs_po}

\* _compile_js_translations that gives up at the first failing msgfmt
compile_js_StopAtFailure(locale_codes, fs, js_fails) ==
    [l \in Locales |->
        IF /\ l \in js_locales(locale_codes, fs)
           /\ \E i \in DOMAIN locale_codes :
                 /\ locale_codes[i] = l
                 /\ \A j \in 1..i : locale_codes[j] \notin js_fails
        THEN [fs[l] EXCEPT !.djangojs_mo = TRUE]
        ELSE fs[l]]

\* _compile_js_translations: djangojs.po -> djangojs.mo where the .po exists;
\* a failing msgfmt is only a warning
compile_js(locale_codes, fs, js_fails) ==
    [l \in Locales |->
        IF /\ \E i \in DOMAIN locale_codes : locale_codes[i] = l
           /\ fs[l].lc_messages /\ fs[l].djangojs_po /\ l \notin js_fails
        THEN [fs[l] EXCEPT !.djangojs_mo = TRUE]
        ELSE fs[l]]

\* Command.handle of compile_translations: the locales of --locale, or every
\* directory under base/locale in the order iterdir() gives them; msgcat and
\* msgfmt fail for the locales the environment makes them fail for
compile_translations(locales, iterdir, cat_fails, fmt_fails, js_fails) ==
    LET locale_codes == IF locales # NoLocales THEN locales ELSE iterdir
        run == compile_locales(locale_codes, locale_fs, cat_fails, fmt_fails)
    IN  /\ locale_fs' = IF run.error THEN run.fs
                        ELSE compile_js(locale_codes, run.fs, js_fails)
        /\ compile_result' =
              [status |-> IF run.error THEN "CommandError" ELSE "ok",
               compiled |-> run.compiled,
               summary |-> IF run.error THEN "none"
                           ELSE IF run.compiled # {} THEN "success"
                           ELSE "nothing compiled",
               js_warnings |-> IF run.error THEN {}
                               ELSE js_locales(locale_codes, run.fs) \cap js_fails]
        /\ UNCHANGED nonPo

\* the source files a developer keeps under base/locale: any for zh, app.po
\* or nothing for en, whose LC_MESSAGES directory may be missing
PoInit ==
    /\ GameInit0 /\ SeedInit0 /\ AcctInit0 /\ WebInit0 /\ TextInit0 /\ SocialInit0
    /\ \E zh \in [SourceNames -> UNION {SourceContents(f) : f \in SourceNames}],
          en_app \in SourceContents("app.po"),
          en_dir, js \in BOOLEAN :
          /\ \A f \in SourceNames : zh[f] \in SourceContents(f)
          /\ en_dir \/ ~en_app.exists
          /\ locale_fs = [l \in Locales |->
                IF l = "zh"
                THEN [EmptyMessagesDir EXCEPT !.sources = zh, !.djangojs_po = js]
                ELSE [EmptyMessagesDir EXCEPT !.lc_messages = en_dir,
                                              !.sources["app.po"] = en_app]]
    /\ compile_result = NoRun

PoNext ==
    \E locales \in LocaleOptions, iterdir \in {<<"en", "zh">>, <<"zh", "en">>},
       cat_fails \in SUBSET {"en"}, fmt_fails \in SUBSET {"zh"},
       js_fails \in SUBSET {"zh"} :
        compile_translations(locales, iterdir, cat_fails, fmt_fails, js_fails)

PoSpec == PoInit /\ [][PoNext]_vars

\* the ways msgcat and msgfmt can fail in a run: not at all, or for one
\* locale in the merge, in the compile of django.po or in that of djangojs.po
NoFailure == [cat |-> {}, fmt |-> {}, js |-> {}]

FailureCases ==
    {NoFailure}
      \cup {[NoFailure EXCEPT !.cat = {l}] : l \in Locales}
      \cup {[NoFailure EXCEPT !.fmt = {l}] : l \in Locales}
      \cup {[NoFailure EXCEPT !.js = {l}] : l \in Locales}

\* the locale_codes of a run: --locale lists, or the order of iterdir()
LocaleCodes == {<<"en", "zh">>, <<"zh", "en">>, <<"zh">>, <<"fr">>}

\* each locale with or without LC_MESSAGES, app.po and djangojs.po
PoAbortInit ==
    /\ GameInit0 /\ SeedInit0 /\ AcctInit0 /\ WebInit0 /\ TextInit0 /\ SocialInit0
    /\ \E dir, app, js \in [Locales -> BOOLEAN] :
          /\ \A l \in Locales : dir[l] \/ ~(app[l] \/ js[l])
          /\ locale_fs = [l \in Locales |->
                [EmptyMessagesDir EXCEPT
                    !.lc_messages = dir[l],
                    !.sources["app.po"] = IF app[l] THEN PoFile("app.po", MsgIds)
                                          ELSE NoFile,
                    !.djangojs_po = js[l]]]
    /\ compile_result = NoRun

PoAbortNext ==
    \E locale_codes \in LocaleCodes, fails \in FailureCases :
        compile_translations(NoLocales, locale_codes, fails.cat, fails.fmt, fails.js)

PoAbortSpec == PoAbortInit /\ [][PoAbortNext]_vars

----------------------------------------------------------------------------
(* MySocialAccountAdapter.pre_social_login *)

\* the addresses of the users that sign up and of the social accounts
SocialEmails == {Email(<<"a", ".">>, d) : d \in Domains}

\* sociallogin.email_addresses: none, one without a value, one, or two
AddressLists ==
    {<< >>, << << >> >>}
      \cup {<<e>> : e \in SocialEmails}
      \cup {<<e, f>> : e, f \in SocialEmails}

\* the login page the blocked login is sent to
LoginUrl == "/accounts/login/"

\* the users User.objects.get(email=email) finds
users_with_email(email) ==
    {u \in UserIds : user_rows[u].exists /\ user_rows[u].email = email}

\* the linking step with the test of request.user left out
social_connect_AnyRequestUser(email, is_existing, is_anonymous) ==
    IF ~is_existing
    THEN IF Cardinality(users_with_email(email)) = 1
         THEN CHOOSE u \in users_with_email(email) : TRUE
         ELSE None
    ELSE None

\* the linking step: the user sociallogin.connect is called with, or None.
\* get() raises DoesNotExist for no user and MultipleObjectsReturned for
\* several; both are caught and only logged
social_connect(email, is_existing, is_anonymous) ==
    IF ~is_existing /\ is_anonymous
    THEN IF Cardinality(users_with_email(email)) = 1
         THEN CHOOSE u \in users_with_email(email) : TRUE
         ELSE None
    ELSE None

\* pre_social_login(request, sociallogin): the email is that of the first
\* address, or None; without one the login is answered by a redirect to the
\* login page with an error message; else the account is linked to the user
\* of that email, if any, and the login goes on
pre_social_login(email_addresses, is_existing, is_anonymous) ==
    LET email == IF email_addresses # << >> THEN email_addresses[1] ELSE NoneText
        call == [NoSocialLogin EXCEPT !.called = TRUE,
                                      !.email_addresses = email_addresses,
                                      !.is_existing = is_existing,
                                      !.is_anonymous = is_anonymous]
    IN  /\ social' =
              IF email = NoneText \/ email = << >>
              THEN [call EXCEPT !.response = LoginUrl, !.message = TRUE]
              ELSE [call EXCEPT !.response = "continue",
                                !.connected = social_connect(email, is_existing,
                                                             is_anonymous)]
        /\ UNCHANGED nonSocial

\* users sign up, and social logins come in
SocialInit == GameInit0 /\ SeedInit0 /\ AcctInit0 /\ WebInit0 /\ TextInit0 /\ PoInit0 /\ SocialInit0

SocialNext ==
    \/ \E r \in Requests, email \in SocialEmails :
          NewInstance(r, email, << >>, <<"p">>, FALSE)
    \/ \E r \in Requests : User_save(r)
    \/ \E email_addresses \in AddressLists, is_existing, is_anonymous \in BOOLEAN :
          pre_social_login(email_addresses, is_existing, is_anonymous)

SocialSpec == SocialInit /\ [][SocialNext]_vars

----------------------------------------------------------------------------
(* Properties *)

\* the rows of quiz_game_session
Stored == {pk \in SessionIds : sessions[pk].exists}

\* every GameSession instance there is: a fresh one per row, and the ones
\* the requests hold (which may be stale)
Instances ==
    {Instance(pk) : pk \in Stored}
        \cup {inst[r] : r \in {x \in Requests : inst[x] # NoInstance}}

\* some attempt of the session of self is marked correct
HasCorrect(self) == \E a \in attempts : a.game_session = self.pk /\ a.is_correct

\* C1: a session completed after its deadline is ABANDONED at every time and
\* with every attempt history, a correct attempt included
C1_LateIsAbandoned ==
    \A self \in Instances :
        (self.completed_at # None /\ self.completed_at > self.end_at)
            => status(self) = "ABANDONED"

C1_Witness ==
    \E self \in Instances :
        /\ self.completed_at # None
        /\ self.completed_at > self.end_at
        /\ HasCorrect(self)
        /\ now > self.completed_at

\* C2: a session completed exactly at its deadline is WON or LOST, never
\* ABANDONED, at every time
C2_BoundaryIsOnTime ==
    \A self \in Instances :
        self.completed_at = self.end_at => status(self) \in {"WON", "LOST"}

C2_Witness ==
    \E self \in Instances :
        /\ self.completed_at = self.end_at
        /\ now > self.end_at
        /\ ~HasCorrect(self)

\* C3: a session completed at or before its deadline is WON when one of its
\* own attempts is correct and LOST otherwise, at every time and for every
\* number and order of attempts
C3_OnTimeWonOrLost ==
    \A self \in Instances :
        (self.completed_at # None /\ self.completed_at <= self.end_at)
            => status(self) = IF HasCorrect(self) THEN "WON" ELSE "LOST"

C3_Witness ==
    \E self \in Instances :
        /\ self.completed_at # None
        /\ self.completed_at <= self.end_at
        /\ now > self.end_at
        /\ \E a, b \in attempts :
              /\ a.game_session = self.pk /\ b.game_session = self.pk
              /\ a.attempt_number < b.attempt_number
              /\ a.is_correct /\ ~b.is_correct

\* C4: a session that is not completed is ABANDONED from its deadline on
\* (the deadline included) and IN_PROGRESS before it, whatever attempts exist
C4_UncompletedByDeadline ==
    \A self \in Instances :
        self.completed_at = None
            => status(self) = IF now >= self.end_at THEN "ABANDONED" ELSE "IN_PROGRESS"

C4_Witness ==
    \E self \in Instances :
        /\ self.completed_at = None
        /\ now = self.end_at
        /\ HasCorrect(self)

\* C5: the status of every session is one of IN_PROGRESS, WON, LOST and
\* ABANDONED, and the admin's status column finds its colour in the table
C5_StatusIsOneOfFour ==
    \A self \in Instances :
        /\ status(self) \in StatusValues
        /\ status_display(self).text \in DOMAIN colors
        /\ status_display(self).color = colors[status(self)]

C5_Witness ==
    /\ \E self \in Instances : status(self) = "IN_PROGRESS"
    /\ \E self \in Instances : status(self) = "WON"
    /\ \E self \in Instances : status(self) = "ABANDONED"

\* C6: a stored completed_at, once set, never changes, and a stored end_at
\* never changes
C6_CompletedAtNeverChanges ==
    [][\A pk \in SessionIds :
          sessions[pk].exists =>
              /\ sessions'[pk].end_at = sessions[pk].end_at
              /\ sessions[pk].completed_at # None =>
                    sessions'[pk].completed_at = sessions[pk].completed_at]_vars

C8_NoAttemptOnceCompleted ==
    [][\A pk \in SessionIds :
          (sessions[pk].exists /\ sessions[pk].completed_at # None)
              => {a \in attempts' : a.game_session = pk} = attempts_of(pk)]_vars

\* C9: no attempt is added to an uncompleted session at or after its deadline
C9_NoAttemptOnceExpired ==
    [][\A pk \in SessionIds :
          (/\ sessions[pk].exists
           /\ sessions[pk].completed_at = None
           /\ now >= sessions[pk].end_at)
              => {a \in attempts' : a.game_session = pk} = attempts_of(pk)]_vars

\* C10: an attempt is marked correct exactly when its text, trimmed and
\* lowercased, equals the trimmed and lowercased answer of its question
C10_IsCorrectIffNormalizedMatch ==
    \A a \in attempts :
        a.is_correct <=>
            Lower(Strip(a.user_answer)) = clean_answer(sessions[a.game_session].question)

\* C11: a session with a correct attempt is completed
C11_CorrectAttemptCompletes ==
    \A pk \in Stored :
        (\E a \in attempts_of(pk) : a.is_correct) => sessions[pk].completed_at # None

\* the statuses in which no further attempt is accepted
Terminal == {"WON", "LOST", "ABANDONED"}

\* C12: a session enters a terminal status once: no step takes a stored
\* session from one terminal status to another, and a step that leaves the
\* stored rows as they are leaves every terminal status as it is
C12_OneTerminalStatus ==
    [][\A pk \in SessionIds :
          (sessions[pk].exists /\ sessions'[pk].exists
              /\ status(Instance(pk)) \in Terminal)
            => /\ (status(Instance(pk)))' \in Terminal
               /\ (status(Instance(pk)))' = status(Instance(pk))]_vars

\* C15: an unlock record, once created, is never removed, and no two records
\* share (user, trophy)
C15_UnlocksNeverRemoved ==
    [][/\ user_trophies \subseteq user_trophies'
       /\ \A x, y \in user_trophies' :
             (x.user = y.user /\ x.trophy = y.trophy) => x = y]_vars

\* C14: every stored user has exactly one Profile and one UserStatistics;
\* they are created with the user, with player_level 1 and experience_points
\* 0; a later save of the user leaves both as they are
C14_OneProfileKeptOnSave ==
    [][\A u \in UserIds :
          user_rows'[u].exists =>
            /\ Cardinality(profiles_of(u)') = 1
            /\ Cardinality(stats_of(u)') = 1
            /\ ~user_rows[u].exists =>
                  \A x \in profiles_of(u)' \cup stats_of(u)' :
                      /\ x.player_level = DefaultPlayerLevel
                      /\ x.experience_points = DefaultExperiencePoints
            /\ (user_rows[u].exists /\ \E r \in Requests : uinst[r].pk = u /\ User_save(r))
                  => /\ profiles_of(u)' = profiles_of(u)
                     /\ stats_of(u)' = stats_of(u)]_vars

\* the name the uniqueness loop must give: the base if no other user holds it,
\* else the base followed by _k for the smallest k >= 1 no other user holds
IsSmallestFree(username, base, pk) ==
    \/ ~username_taken(base, pk) /\ username = base
    \/ /\ username_taken(base, pk)
       /\ \E k \in 1..Cardinality(UserIds) :
             /\ username = base \o <<"_">> \o str(k)
             /\ ~username_taken(username, pk)
             /\ \A j \in 1..(k - 1) : username_taken(base \o <<"_">> \o str(j), pk)

\* a step of request r that gives its instance, and the row it stores, a
\* username generated from `base`
GeneratesFrom(r, base) ==
    /\ IsSmallestFree(uinst'[r].username, base, uinst[r].pk)
    /\ uinst'[r].pk # None => user_rows'[uinst'[r].pk].username = uinst'[r].username

\* a save of an instance that has a username stores that username
KeepsUsername ==
    \A r \in Requests :
        (uinst[r].email # << >> /\ uinst[r].username # << >>
            /\ (User_save(r) \/ populate_username(r)))
          => /\ uinst'[r].username = uinst[r].username
             /\ uinst'[r].pk # None => user_rows'[uinst'[r].pk].username = uinst[r].username

\* the local part with '.' replaced by '_'
DotsReplaced(email) == replace(local_part(email), ".", "_")

AdminLoginOf(u) ==
    /\ auth.username # NoneText /\ auth.password # NoneText
    /\ user_rows[u].exists
    /\ \/ user_rows[u].username = auth.username
       \/ /\ ~\E v \in UserIds :
                 user_rows[v].exists /\ user_rows[v].username = auth.username
          /\ user_rows[u].email = auth.username
    /\ user_rows[u].password = auth.password
    /\ user_rows[u].is_staff
    /\ auth.request.present /\ auth.request.has_path
    /\ auth.request.path # << >> /\ Head(auth.request.path) = "admin"

C20_LanguageFromUrl ==
    \A i \in DOMAIN responses :
        /\ responses[i].path = << >> => responses[i].LANGUAGE_CODE = "en"
        /\ responses[i].path = <<"zh">> => responses[i].LANGUAGE_CODE = "zh"
        /\ \A j \in DOMAIN responses :
              responses[i].path = responses[j].path
                => responses[i].LANGUAGE_CODE = responses[j].LANGUAGE_CODE

\* C20: / served in en to a client with a zh cookie, right after /zh/ in zh
C20_Witness ==
    /\ Len(responses) = 2
    /\ responses[1].path = <<"zh">> /\ responses[1].LANGUAGE_CODE = "zh"
    /\ responses[2].path = << >> /\ responses[2].LANGUAGE_CODE = "en"
    /\ responses[2].status_code = 200
    /\ client.cookie = "zh"

\* what a lookup in mapping d for a language must give
LookupIn(d, language) ==
    IF language \in DOMAIN d THEN d[language]
    ELSE IF "en" \in DOMAIN d THEN d["en"]
    ELSE ""

\* the field a getter reads
FieldOf(getter) ==
    IF getter = "get_question_text" THEN content.question_text
    ELSE IF getter = "get_hint_text" THEN content.hint_text
    ELSE content.explanation

\* C18: a lookup in a mapping gives the text of the requested language if the
\* mapping has it, else the 'en' text, else the empty string
C18_LookupFallsBack ==
    (shown.getter # "None" /\ FieldOf(shown.getter).is_dict)
      => shown.text = LookupIn(FieldOf(shown.getter).items, shown.language)

\* C18: a hint asked for in a language the mapping lacks gives the 'en' text
C18_Witness ==
    /\ shown.getter = "get_hint_text"
    /\ shown.language = "fr"
    /\ content.hint_text.is_dict
    /\ DOMAIN content.hint_text.items = {"en", "zh"}
    /\ content.hint_text.items["en"] = "t"
    /\ content.hint_text.items["zh"] = ""
    /\ shown.text = "t"

\* the rank of a source file: 1 is the highest priority
Priority(f) == CHOOSE i \in DOMAIN SourceFiles : SourceFiles[i] = f

\* the source files of a directory that exist and translate message id m
Translating(dir, m) ==
    {f \in SourceNames : dir.sources[f].exists /\ m \in DOMAIN dir.sources[f].entries}

\* C19: for every locale the last run compiled there is one django.po and
\* one django.mo, and for every message id django.po carries the translation
\* of the existing source file of highest priority that contains it
C19_FirstFileWins ==
    \A l \in compile_result.compiled :
        /\ locale_fs[l].django_po.exists
        /\ locale_fs[l].django_mo.exists
        /\ \A m \in MsgIds :
              IF Translating(locale_fs[l], m) = {}
              THEN m \notin DOMAIN locale_fs[l].django_po.entries
              ELSE /\ m \in DOMAIN locale_fs[l].django_po.entries
                   /\ \E f \in Translating(locale_fs[l], m) :
                         /\ \A g \in Translating(locale_fs[l], m) :
                               Priority(f) <= Priority(g)
                         /\ locale_fs[l].django_po.entries[m]
                               = locale_fs[l].sources[f].entries[m]

\* C19: zh compiled from a manual.po that has only Home and lower files that
\* have both messages: Home comes from manual.po, Language from app.po
C19_Witness ==
    /\ "zh" \in compile_result.compiled
    /\ DOMAIN locale_fs["zh"].sources["manual.po"].entries = {"Home"}
    /\ locale_fs["zh"].sources["manual.po"].exists
    /\ DOMAIN locale_fs["zh"].sources["app.po"].entries = MsgIds
    /\ locale_fs["zh"].sources["django-core.po"].exists
    /\ locale_fs["zh"].django_po.entries["Home"] = "manual.po"
    /\ locale_fs["zh"].django_po.entries["Language"] = "app.po"
    /\ locale_fs["zh"].django_mo.exists

\* C23: a terminal status is kept: a stored session that is WON, LOST or
\* ABANDONED has the same status after every step; in particular an
\* uncompleted session that is ABANDONED does not become WON or LOST, and a
\* LOST session does not become WON
C23_TerminalStatusKept ==
    [][\A pk \in SessionIds :
          sessions[pk].exists =>
            /\ status(Instance(pk)) \in Terminal
                  => (status(Instance(pk)))' = status(Instance(pk))
            /\ (status(Instance(pk)) = "ABANDONED" /\ sessions[pk].completed_at = None)
                  => (status(Instance(pk)))' \notin {"WON", "LOST"}
            /\ status(Instance(pk)) = "LOST"
                  => (status(Instance(pk)))' # "WON"]_vars

\* C24: complete() of a request on a session whose stored completed_at is
\* already set leaves the stored completed_at as it is
C24_CompletedAtWrittenOnce ==
    [][\A r \in Requests :
          (/\ inst[r] # NoInstance
           /\ sessions[inst[r].pk].completed_at # None
           /\ complete(r))
            => sessions'[inst[r].pk].completed_at = sessions[inst[r].pk].completed_at]_vars

\* C25: complete() changes only completed_at: the stored score, end_at and
\* question of the session and the attempts are as before, also when the
\* stored score was set after the request loaded the session; on a session
\* already completed it writes nothing
C25_CompleteChangesOnlyCompletedAt ==
    [][\A r \in Requests :
          (inst[r] # NoInstance /\ complete(r))
            => /\ sessions'[inst[r].pk].score = sessions[inst[r].pk].score
               /\ sessions'[inst[r].pk].end_at = sessions[inst[r].pk].end_at
               /\ sessions'[inst[r].pk].question = sessions[inst[r].pk].question
               /\ attempts' = attempts
               /\ sessions[inst[r].pk].completed_at # None => sessions' = sessions]_vars


\* the place in locale_codes of the first locale whose django.po fails to
\* merge or to compile (0: none): a locale that has source files to merge
FirstFailure(locale_codes, cat_fails, fmt_fails) ==
    LET failing == {i \in DOMAIN locale_codes :
                      /\ locale_codes[i] \in Locales
                      /\ locale_fs[locale_codes[i]].lc_messages
                      /\ existing_files(locale_fs[locale_codes[i]]) # << >>
                      /\ locale_codes[i] \in cat_fails \cup fmt_fails}
    IN  IF failing = {} THEN 0
        ELSE CHOOSE i \in failing : \A j \in failing : i <= j

C26_GeneratedUsernamesStored ==
    [][/\ \A u, v \in UserIds :
             (user_rows'[u].exists /\ user_rows'[v].exists /\ u # v)
                => /\ user_rows'[u].username # user_rows'[v].username
                   /\ user_rows'[u].username # << >>
       /\ \A r \in Requests :
             (/\ uinst[r].email # << >> /\ uinst[r].pk = None
              /\ uinst[r].username = adapter_base(uinst[r].email)
              /\ uinst[r].username \notin GivenUsernames
              /\ ~\E u \in UserIds :
                     user_rows[u].exists /\ user_rows[u].email = uinst[r].email
              /\ User_save(r))
               => /\ uinst'[r].raised = "none"
                  /\ \E u \in UserIds :
                        /\ user_rows'[u].exists
                        /\ user_rows'[u].email = uinst[r].email]_vars


\* C27: the username that User.save or populate_username generates for a user
\* without one, and every stored username, has at most 150 characters
C27_UsernameWithinMaxLength ==
    /\ \A r \in Requests : Len(uinst[r].username) <= UsernameMaxLength
    /\ \A u \in UserIds :
          user_rows[u].exists => Len(user_rows[u].username) <= UsernameMaxLength

\* C28: for every address and the usernames stored, generate_username_from_email
\* and User.save give a new user without a username the same username
C28_AdapterMatchesSave ==
    \A email \in Emails :
        unique_username(adapter_base(email), adapter_base(email), 1, None)
          = unique_username(save_base(email), save_base(email), 1, None)


\* every seeded category and trophy is stored, and every seeded question has
\* exactly one row: what load_seed_data leaves when it returns normally
SeedsStored ==
    /\ \A i \in DOMAIN SeedCategories : catalog.categories[SeedCategories[i]] # "absent"
    /\ \A i \in DOMAIN SeedTrophies : catalog.trophies[SeedTrophies[i]] # "absent"
    /\ \A i \in DOMAIN SeedQuestions :
          Cardinality({pk \in QuestionIds :
                         /\ questions[pk].exists
                         /\ questions[pk].key = SeedQuestions[i].key
                         /\ questions[pk].category = SeedQuestions[i].category}) = 1

\* C29: a run of load_seed_data without --clear changes no category, question
\* or trophy that exists; a run that fails stores nothing, a run that returns
\* normally leaves every seeded row stored, and a run on tables that hold
\* every seeded row creates nothing: the tables after a second run equal
\* those after the first
C29_SecondRunChangesNothing ==
    [][load_seed_data(FALSE) =>
         /\ \A c \in CategoryNames :
               catalog.categories[c] # "absent"
                  => catalog'.categories[c] = catalog.categories[c]
         /\ \A t \in TrophyCodes :
               catalog.trophies[t] # "absent"
                  => catalog'.trophies[t] = catalog.trophies[t]
         /\ questions' = questions
         /\ catalog'.result = "error"
               => /\ catalog'.categories = catalog.categories
                  /\ catalog'.trophies = catalog.trophies
         /\ catalog'.result = "ok" => SeedsStored'
         /\ SeedsStored
               => /\ catalog'.result = "ok"
                  /\ catalog'.categories = catalog.categories
                  /\ catalog'.trophies = catalog.trophies]_vars

\* a run returned normally and left the categories and the trophy that the
\* admin had created under seeded names as they were, next to the trophy it
\* created
C29_Witness ==
    /\ catalog.result = "ok"
    /\ SeedsStored
    /\ catalog.categories["HTML"] = "custom"
    /\ catalog.categories["PYTHON"] = "custom"
    /\ catalog.trophies["LEVEL_5"] = "custom"
    /\ catalog.trophies["HTML_MASTER"] = "seed"

\* C30: a run of load_seed_data in which a load step fails, with or without
\* --clear, leaves the stored categories, questions and trophies as they were
C30_FailedRunChangesNothing ==
    [][\A clear \in BOOLEAN :
          (load_seed_data(clear) /\ catalog'.result = "error")
             => /\ catalog'.categories = catalog.categories
                /\ catalog'.trophies = catalog.trophies
                /\ questions' = questions]_vars


\* C21: a social login without an email (no address, or a first address
\* without a value) is answered by a redirect to /accounts/login/ and
\* connects nothing; with an email the login goes on, and the account is
\* connected exactly when the login is not an existing one, the request user
\* is anonymous and exactly one user has that email, and then to that user
C21_ConnectsExistingUser ==
    [][\A email_addresses \in AddressLists, is_existing, is_anonymous \in BOOLEAN :
          pre_social_login(email_addresses, is_existing, is_anonymous) =>
            LET supplied == email_addresses # << >> /\ Head(email_addresses) # << >>
                holders == IF supplied
                           THEN {u \in UserIds : /\ user_rows[u].exists
                                                 /\ user_rows[u].email = Head(email_addresses)}
                           ELSE {}
            IN  /\ ~supplied => /\ social'.response = "/accounts/login/"
                                /\ social'.connected = None
                /\ supplied =>
                      /\ social'.response = "continue"
                      /\ social'.connected # None
                            <=> (~is_existing /\ is_anonymous /\ Cardinality(holders) = 1)
                      /\ social'.connected # None => social'.connected \in holders]_vars

\* a new social login of an anonymous visitor was connected to the stored
\* user that has its email, while another user is stored too
C21_Witness ==
    /\ social.called /\ ~social.is_existing /\ social.is_anonymous
    /\ social.response = "continue"
    /\ social.connected # None
    /\ user_rows[social.connected].email = Head(social.email_addresses)
    /\ Cardinality({u \in UserIds : user_rows[u].exists}) = 2

====
